---- MODULE Spec2Model ----
(***************************************************************************)
(* Model of the forum router (src/Dockerfile lines 86-524) running against *)
(* the relational schema of the migration (src/Dockerfile lines 15-84).    *)
(* A handler that awaits the store once is one action.  A handler that     *)
(* awaits it several times occupies a request slot and advances one await  *)
(* at a time, so that other requests are served between two of its awaits. *)
(***************************************************************************)
EXTENDS Integers, Sequences, FiniteSets, TLC

VARIABLES forums, threads, replies, threadSeq, replySeq, now, pc, loc, resp

vars == <<forums, threads, replies, threadSeq, replySeq, now, pc, loc, resp>>
store == <<forums, threads, replies>>

(* ------------------------------- bounds -------------------------------- *)
MaxInserts == 3        \* INSERT statements sent to the store (threads and replies)
MaxRows == 21          \* rows pre-loaded for the listing specification
MaxPage == 4           \* largest page number a listing request asks for

(* -------------------------- program constants -------------------------- *)
ListLimit == 10        \* const limit = 10
SearchTake == 20       \* take: 20
FeedLimit == 40        \* LIMIT 40

\* the requests in flight that are between two awaits: both slots serve a
\* thread deletion, slot 1 also a search or a listing
Procs == {1, 2}
ReadProcs == {1}
SeedForums == {1}
Null == 0 - 1          \* SQL NULL in an integer or timestamp column of a joined row

(* ------------------------------- text ---------------------------------- *)
PreOpen == "<pre>"
PreOpenResponsive == "<pre class=responsive>"
PreClose == "</pre>"

Lower(c) == CASE c = "H" -> "h" [] c = "I" -> "i" [] c = "Y" -> "y" [] OTHER -> c

\* s contains sub as a contiguous run, compared case-insensitively
ContainsInsensitive(s, sub) ==
    \E i \in 0..(Len(s) - Len(sub)) :
        \A j \in 1..Len(sub) : Lower(s[i + j]) = Lower(sub[j])

RECURSIVE TrimStart(_)
TrimStart(s) == IF s # <<>> /\ Head(s) = " " THEN TrimStart(Tail(s)) ELSE s
RECURSIVE TrimEnd(_)
TrimEnd(s) ==
    IF s # <<>> /\ s[Len(s)] = " " THEN TrimEnd(SubSeq(s, 1, Len(s) - 1)) ELSE s
Trim(s) == TrimEnd(TrimStart(s))

\* author || null : the empty string is stored as NULL; NULL is <<>>, a
\* value is the one-element tuple holding the text
AuthorOrNull(a) == IF a = <<>> THEN <<>> ELSE <<a>>
AuthorContains(a, q) == a # <<>> /\ ContainsInsensitive(a[1], q)

ThreadContent(c) == <<PreOpenResponsive>> \o c \o <<PreClose>>
ReplyContent(c) == <<PreOpen>> \o c \o <<PreClose>>

(* ------------------------------ inputs --------------------------------- *)
ThreadBodies ==
    { [title |-> <<"h", "i">>, author |-> <<>>, content |-> <<"y", "o">>],
      [title |-> <<"y", "o">>, author |-> <<"b">>, content |-> <<"y">>] }
ReplyBodies ==
    { [author |-> <<>>, content |-> <<"H", "I">>],
      [author |-> <<"b">>, content |-> <<"y">>] }
PlainThreadBodies == {[title |-> <<"h", "i">>, author |-> <<>>, content |-> <<"y", "o">>]}
PlainReplyBodies == {[author |-> <<"b">>, content |-> <<"y">>]}
Queries == { <<" ">>, <<" ", "h", "I">> }
\* req.query.q : absent, or the text given
QueryParams ==
    {[absent |-> TRUE, text |-> <<>>]} \cup {[absent |-> FALSE, text |-> s] : s \in Queries}

\* Number(req.params.x): a numeric string gives the number, anything else NaN
NaN == [nan |-> TRUE, n |-> 0]
Num(n) == [nan |-> FALSE, n |-> n]
ForumParams == {NaN} \cup {Num(i) : i \in SeedForums \cup {2}}
IdParams == {NaN} \cup {Num(i) : i \in 1..MaxInserts}
\* CURRENT_TIMESTAMP of a statement: the millisecond of the statement before
\* it, or a later one
Stamps(t) == {t, t + 1}
Inserts == (threadSeq - 1) + (replySeq - 1)
\* req.query.page : absent or not numeric (NaN), or an integer
PageParams == {NaN} \cup {Num(i) : i \in (0 - 2)..MaxPage}

(* --------------------------- store operators --------------------------- *)
Max(a, b) == IF a >= b THEN a ELSE b
Min(a, b) == IF a <= b THEN a ELSE b
SetMax(S) == CHOOSE x \in S : \A y \in S : y <= x

ThreadIds(ts) == {t.id : t \in ts}
ThreadById(ts, id) == CHOOSE t \in ts : t.id = id
RepliesOf(rs, tid) == {r \in rs : r.threadId = tid}

\* every ordering of rows S that ORDER BY key ASC allows (ties in any order);
\* key is a function giving each row's sort key
RECURSIVE OrdersAsc(_, _)
OrdersAsc(S, key) ==
    IF S = {} THEN {<<>>}
    ELSE LET low == {x \in S : \A y \in S : key[x] <= key[y]}
         IN UNION { {<<x>> \o s : s \in OrdersAsc(S \ {x}, key)} : x \in low }

\* the query sorted the other way round
OrdersOldestFirst(S, key) == OrdersAsc(S, key)

\* every ordering of rows S that ORDER BY key DESC allows
RECURSIVE OrdersDesc(_, _)
OrdersDesc(S, key) ==
    IF S = {} THEN {<<>>}
    ELSE LET top == {x \in S : \A y \in S : key[y] <= key[x]}
         IN UNION { {<<x>> \o s : s \in OrdersDesc(S \ {x}, key)} : x \in top }

\* every ordering of rows S a query without ORDER BY may return
RECURSIVE AnyOrders(_)
AnyOrders(S) ==
    IF S = {} THEN {<<>>}
    ELSE UNION { {<<x>> \o s : s \in AnyOrders(S \ {x})} : x \in S }

\* the sort key of ORDER BY created_at, as a function over the rows sorted
CreatedAt(S) == [row \in S |-> row.createdAt]

\* take / skip of a findMany
Take(s, n) == SubSeq(s, 1, Min(Len(s), n))
Skip(s, n) == SubSeq(s, n + 1, Len(s))

SeqIds(s) == {s[i].id : i \in DOMAIN s}

(* ------------------------------ responses ------------------------------ *)
\* resp is the response a handler has just handed over (res.send, res.render,
\* res.redirect), with the locals of the handler at that point; Deliver sends
\* it out before any other step is taken, and leaves NoResp
Idle == [op |-> "idle"]
Sent(frame, out) == [frame |-> frame, out |-> out]
NoResp == Sent(Idle, [kind |-> "none"])
ServerError == [kind |-> "send", status |-> 500, body |-> "Server error"]

Init ==
    /\ forums = SeedForums
    /\ threads = {}
    /\ replies = {}
    /\ threadSeq = 1
    /\ replySeq = 1
    /\ now = 0
    /\ pc = [p \in Procs |-> "idle"]
    /\ loc = [p \in Procs |-> Idle]
    /\ resp = NoResp

Deliver ==
    /\ resp # NoResp
    /\ resp' = NoResp
    /\ UNCHANGED <<forums, threads, replies, threadSeq, replySeq, now, pc, loc>>

(* ------------------------- schema constraints -------------------------- *)
\* threads_forum_id_fkey : a thread row needs its forum row
ThreadFkHolds(fs, fid) == fid \in fs

\* the reply insert with the foreign key left unchecked
ReplyFkUnchecked(ts, tid) == TRUE

\* replies_thread_id_fkey : a reply row needs its thread row
ReplyFkHolds(ts, tid) == tid \in ThreadIds(ts)

\* ON DELETE CASCADE of replies_thread_id_fkey : deleting thread tid deletes
\* every reply row that references it
CascadeReplies(rs, tid) == {r \in rs : r.threadId # tid}

(* ------------------------- POST /f/:forumId/threads -------------------- *)
NewThreadRow(id, fid, body, at) ==
    [id |-> id, forumId |-> fid, title |-> body.title,
     author |-> AuthorOrNull(body.author),
     content |-> ThreadContent(body.content), createdAt |-> at]

CreateThread(fid, body, at) ==
    /\ resp = NoResp
    /\ UNCHANGED <<forums, replies, replySeq, pc, loc>>
    /\ LET frame == [op |-> "createThread"]
       IN IF fid.nan
          THEN \* the client rejects a NaN forumId before any statement is sent
               /\ resp' = Sent(frame, ServerError)
               /\ UNCHANGED <<threads, threadSeq, now>>
          ELSE /\ Inserts < MaxInserts
               /\ threadSeq' = threadSeq + 1   \* nextval is not rolled back
               /\ now' = at
               /\ IF ThreadFkHolds(forums, fid.n)
                  THEN /\ threads' = threads \cup
                              {NewThreadRow(threadSeq, fid.n, body, at)}
                       /\ resp' = Sent(frame,
                              [kind |-> "redirect", to |-> "thread", id |-> threadSeq])
                  ELSE /\ threads' = threads
                       /\ resp' = Sent(frame, ServerError)

(* ------------------------- POST /thread/:id/replies -------------------- *)
NewReplyRow(id, tid, body, at) ==
    [id |-> id, threadId |-> tid, author |-> AuthorOrNull(body.author),
     content |-> ReplyContent(body.content), createdAt |-> at]

CreateReply(tid, body, at) ==
    /\ resp = NoResp
    /\ UNCHANGED <<forums, threads, threadSeq, pc, loc>>
    /\ LET frame == [op |-> "createReply"]
       IN IF tid.nan
          THEN /\ resp' = Sent(frame, ServerError)
               /\ UNCHANGED <<replies, replySeq, now>>
          ELSE /\ Inserts < MaxInserts
               /\ replySeq' = replySeq + 1
               /\ now' = at
               /\ IF ReplyFkHolds(threads, tid.n)
                  THEN /\ replies' = replies \cup
                              {NewReplyRow(replySeq, tid.n, body, at)}
                       /\ resp' = Sent(frame,
                              [kind |-> "render", view |-> "redirect", id |-> tid.n])
                  ELSE /\ replies' = replies
                       /\ resp' = Sent(frame, ServerError)

(* ------------- POST /thread/:threadId/replies/:replyId/delete ---------- *)
\* reply rows that the thread-delete transactions in flight of slots Q have
\* deleted and not yet committed: a statement of another request that
\* touches one waits
LockedReplies(Q) ==
    UNION { loc[q].pending : q \in {r \in Q : pc[r] = "txnThread"} }

\* the delete with the threadId condition left out
DeleteManyById(rs, rid, tid) == {r \in rs : r.id # rid}

\* prisma.reply.deleteMany({ where: { id: replyId, threadId } })
DeleteManyReply(rs, rid, tid) == {r \in rs : ~(r.id = rid /\ r.threadId = tid)}

DeleteReply(tid, rid) ==
    /\ resp = NoResp
    /\ UNCHANGED <<forums, threads, threadSeq, replySeq, now, pc, loc>>
    /\ LET frame == [op |-> "deleteReply"]
       IN IF tid.nan \/ rid.nan
          THEN /\ resp' = Sent(frame, ServerError)
               /\ replies' = replies
          ELSE /\ (replies \ DeleteManyReply(replies, rid.n, tid.n))
                      \cap LockedReplies(Procs) = {}
               /\ replies' = DeleteManyReply(replies, rid.n, tid.n)
               /\ resp' = Sent(frame,
                      [kind |-> "redirect", to |-> "thread", id |-> tid.n])

(* --------------------------- POST /thread/:id/delete ------------------- *)
\* prisma.thread.findUnique, the 404, and the start of the transaction
DeleteThreadFind(p, tid) ==
    /\ resp = NoResp
    /\ pc[p] = "idle"
    /\ UNCHANGED <<forums, threads, replies, threadSeq, replySeq, now>>
    /\ LET frame == [op |-> "deleteThread", threadId |-> Null, forumId |-> Null,
                     pending |-> {}]
       IN IF tid.nan
          THEN /\ resp' = Sent(frame, ServerError)
               /\ UNCHANGED <<pc, loc>>
          ELSE IF tid.n \notin ThreadIds(threads)
          THEN /\ resp' = Sent(frame,
                      [kind |-> "send", status |-> 404, body |-> "Thread not found"])
               /\ UNCHANGED <<pc, loc>>
          ELSE /\ loc' = [loc EXCEPT ![p] =
                      [op |-> "deleteThread", threadId |-> tid.n,
                       forumId |-> ThreadById(threads, tid.n).forumId,
                       pending |-> {}]]
               /\ resp' = NoResp
               /\ pc' = [pc EXCEPT ![p] = "txnReplies"]

\* first statement of the transaction: reply.deleteMany({ where: { threadId } });
\* the rows are deleted in the transaction only, the committed store keeps them
TxnDeleteReplies(p) ==
    /\ resp = NoResp
    /\ pc[p] = "txnReplies"
    /\ RepliesOf(replies, loc[p].threadId) \cap LockedReplies(Procs \ {p}) = {}
    /\ loc' = [loc EXCEPT ![p].pending = RepliesOf(replies, loc[p].threadId)]
    /\ pc' = [pc EXCEPT ![p] = "txnThread"]
    /\ resp' = NoResp
    /\ UNCHANGED <<forums, threads, replies, threadSeq, replySeq, now>>

\* the two deletes sent one after the other, outside a transaction: the
\* replies stay deleted when the thread delete fails
RollbackPartial(rs, pending) == rs \ pending

\* what a rolled-back transaction leaves of the reply table
Rollback(rs, pending) == rs

\* what the committed transaction leaves of the reply table
Commit(rs, pending, tid) == CascadeReplies(rs \ pending, tid)

\* second statement, thread.delete({ where: { id } }), and the commit; a
\* thread row that is gone by now makes the statement throw and the
\* transaction roll back
TxnDeleteThread(p) ==
    /\ resp = NoResp
    /\ pc[p] = "txnThread"
    /\ pc' = [pc EXCEPT ![p] = "idle"]
    /\ loc' = [loc EXCEPT ![p] = Idle]
    /\ UNCHANGED <<forums, threadSeq, replySeq, now>>
    /\ IF loc[p].threadId \in ThreadIds(threads)
       THEN /\ threads' = {t \in threads : t.id # loc[p].threadId}
            /\ replies' = Commit(replies, loc[p].pending, loc[p].threadId)
            /\ resp' = Sent(loc[p],
                   [kind |-> "redirect", to |-> "forum", id |-> loc[p].forumId])
       ELSE /\ threads' = threads
            /\ replies' = Rollback(replies, loc[p].pending)
            /\ resp' = Sent(loc[p], ServerError)

\* the store fails inside the transaction (connection lost, statement
\* timeout): everything done so far is rolled back
TxnFail(p) ==
    /\ resp = NoResp
    /\ pc[p] = "txnThread"
    /\ pc' = [pc EXCEPT ![p] = "idle"]
    /\ loc' = [loc EXCEPT ![p] = Idle]
    /\ threads' = threads
    /\ replies' = Rollback(replies, loc[p].pending)
    /\ resp' = Sent(loc[p], ServerError)
    /\ UNCHANGED <<forums, threadSeq, replySeq, now>>

(* ------------------------------ GET /search ---------------------------- *)
ThreadMatches(t, q) ==
    \/ ContainsInsensitive(t.title, q)
    \/ ContainsInsensitive(t.content, q)
    \/ AuthorContains(t.author, q)

ReplyMatches(r, q) ==
    \/ ContainsInsensitive(r.content, q)
    \/ AuthorContains(r.author, q)

\* the loop that groups the matching replies by threadId, each group in the
\* order of the query result
RepliesByThread(mr) ==
    [tid \in {mr[i].threadId : i \in DOMAIN mr} |->
        SelectSeq(mr, LAMBDA r : r.threadId = tid)]

\* repliesByThread[t.id] || []
GroupOrEmpty(rbt, id) == IF id \in DOMAIN rbt THEN rbt[id] ELSE <<>>

\* the result records pushed for the threads that matched directly
DirectResults(mt, rbt) ==
    [i \in DOMAIN mt |->
        [thread |-> mt[i], matchesInThread |-> TRUE,
         replyMatches |-> GroupOrEmpty(rbt, mt[i].id)]]

\* Object.keys(repliesByThread).map(Number).filter(not among matchingThreads);
\* a key is the decimal text of a positive id, which Number reads back unchanged
MissingThreadIds(mt, rbt) == {tid \in DOMAIN rbt : tid \notin SeqIds(mt)}

\* thread.findMany({ where: { id: { in: ids } }, select: { ... } })
ThreadSummary(t) ==
    [id |-> t.id, title |-> t.title, forumId |-> t.forumId,
     author |-> t.author, createdAt |-> t.createdAt]
\* the batch lookup with the id filter left out
FindThreadsAll(ts, ids) == {ThreadSummary(t) : t \in ts}
FindThreadsIn(ts, ids) == {ThreadSummary(t) : t \in {u \in ts : u.id \in ids}}

\* the result records pushed for the threads found by the batch lookup
OrphanResults(found, rbt) ==
    [i \in DOMAIN found |->
        [thread |-> found[i], matchesInThread |-> FALSE,
         replyMatches |-> GroupOrEmpty(rbt, found[i].id)]]

SearchView(q, results) ==
    [kind |-> "render", view |-> "search", query |-> q, results |-> results]

\* q = req.query.q?.trim(); an absent or blank q renders no result at once
SearchBegin(p, raw) ==
    /\ resp = NoResp
    /\ pc[p] = "idle"
    /\ UNCHANGED <<forums, threads, replies, threadSeq, replySeq, now>>
    /\ LET q == IF raw.absent THEN <<>> ELSE Trim(raw.text)
       IN IF q = <<>>
          THEN /\ resp' = Sent([op |-> "search", q |-> q, matchingThreads |-> <<>>,
                             matchingReplies |-> <<>>],
                            SearchView(<<>>, <<>>))
               /\ UNCHANGED <<pc, loc>>
          ELSE /\ loc' = [loc EXCEPT ![p] =
                      [op |-> "search", q |-> q, matchingThreads |-> <<>>,
                       matchingReplies |-> <<>>]]
               /\ resp' = NoResp
               /\ pc' = [pc EXCEPT ![p] = "searchThreads"]

\* matchingThreads = thread.findMany(... take 20, createdAt desc)
SearchThreads(p) ==
    /\ resp = NoResp
    /\ pc[p] = "searchThreads"
    /\ \E order \in OrdersDesc({t \in threads : ThreadMatches(t, loc[p].q)},
                               CreatedAt(threads)) :
          loc' = [loc EXCEPT ![p].matchingThreads = Take(order, SearchTake)]
    /\ pc' = [pc EXCEPT ![p] = "searchReplies"]
    /\ resp' = NoResp
    /\ UNCHANGED <<forums, threads, replies, threadSeq, replySeq, now>>

\* matchingReplies = reply.findMany(... take 20, createdAt desc), then the
\* grouping and the direct results; with no missing thread id the view is
\* rendered at once, otherwise the batch lookup is awaited
SearchReplies(p) ==
    /\ resp = NoResp
    /\ pc[p] = "searchReplies"
    /\ UNCHANGED <<forums, threads, replies, threadSeq, replySeq, now>>
    /\ \E order \in OrdersDesc({r \in replies : ReplyMatches(r, loc[p].q)},
                               CreatedAt(replies)) :
         LET mt == loc[p].matchingThreads
             mr == Take(order, SearchTake)
             rbt == RepliesByThread(mr)
             frame == [loc[p] EXCEPT !.matchingReplies = mr]
         IN IF MissingThreadIds(mt, rbt) = {}
            THEN /\ resp' = Sent(frame, SearchView(loc[p].q, DirectResults(mt, rbt)))
                 /\ loc' = [loc EXCEPT ![p] = Idle]
                 /\ pc' = [pc EXCEPT ![p] = "idle"]
            ELSE /\ resp' = NoResp
                 /\ loc' = [loc EXCEPT ![p] = frame]
                 /\ pc' = [pc EXCEPT ![p] = "searchMissing"]

\* missingThreads = thread.findMany({ id in missingThreadIds }), the orphan
\* results and the render
SearchMissing(p) ==
    /\ resp = NoResp
    /\ pc[p] = "searchMissing"
    /\ UNCHANGED <<forums, threads, replies, threadSeq, replySeq, now>>
    /\ LET mt == loc[p].matchingThreads
           rbt == RepliesByThread(loc[p].matchingReplies)
       IN \E found \in AnyOrders(FindThreadsIn(threads, MissingThreadIds(mt, rbt))) :
            resp' = Sent(loc[p],
                SearchView(loc[p].q,
                           DirectResults(mt, rbt) \o OrphanResults(found, rbt)))
    /\ loc' = [loc EXCEPT ![p] = Idle]
    /\ pc' = [pc EXCEPT ![p] = "idle"]

(* ----------------------------- GET /new-posts -------------------------- *)
\* threads t JOIN forums f ON f.id = t.forum_id
JoinForums(ts, fs) == {t \in ts : t.forumId \in fs}

\* JOIN replies in place of LEFT JOIN replies
InnerJoinReplies(rs, t) ==
    {[rid |-> r.id, rcreated |-> r.createdAt] : r \in RepliesOf(rs, t.id)}

\* LEFT JOIN replies r ON r.thread_id = t.id : the reply columns of the rows
\* joined to thread t, one all-NULL row when no reply matches
LeftJoinReplies(rs, t) ==
    IF RepliesOf(rs, t.id) = {}
    THEN {[rid |-> Null, rcreated |-> Null]}
    ELSE {[rid |-> r.id, rcreated |-> r.createdAt] : r \in RepliesOf(rs, t.id)}

\* COUNT(r.id) : the joined rows whose r.id is not NULL
CountReplyId(joined) == Cardinality({j \in joined : j.rid # Null})

\* MAX(r.created_at) : NULL when every r.created_at is NULL
MaxCreated(joined) ==
    IF \A j \in joined : j.rcreated = Null THEN Null
    ELSE SetMax({j.rcreated : j \in {k \in joined : k.rcreated # Null}})

Coalesce(a, b) == IF a # Null THEN a ELSE b

FeedRow(t, rs) ==
    LET joined == LeftJoinReplies(rs, t)
    IN [id |-> t.id, forum_id |-> t.forumId, created_at |-> t.createdAt,
        reply_count |-> CountReplyId(joined),
        last_reply_at |-> MaxCreated(joined),
        latest_activity |-> Coalesce(MaxCreated(joined), t.createdAt)]

\* GROUP BY t.id, f.id : one row for each thread that has a joined row
FeedRows(ts, fs, rs) ==
    {FeedRow(t, rs) : t \in {u \in JoinForums(ts, fs) : LeftJoinReplies(rs, u) # {}}}

LatestActivity(rows) == [row \in rows |-> row.latest_activity]

NewPosts ==
    /\ resp = NoResp
    /\ \E order \in OrdersDesc(FeedRows(threads, forums, replies),
                               LatestActivity(FeedRows(threads, forums, replies))) :
          resp' = Sent([op |-> "newPosts"],
              [kind |-> "render", view |-> "new-posts",
               rows |-> Take(order, FeedLimit)])
    /\ UNCHANGED <<forums, threads, replies, threadSeq, replySeq, now, pc, loc>>

(* ------------------------------ pagination ----------------------------- *)
\* Number(req.query.page) || 1 : NaN and 0 are falsy
PageOrOne(raw) == IF raw.nan \/ raw.n = 0 THEN 1 ELSE raw.n

\* Math.ceil(count / limit) for count >= 0
CeilDiv(count, limit) ==
    IF count % limit = 0 THEN count \div limit ELSE (count \div limit) + 1

\* const page = Math.max(Number(req.query.page) || 1, 1)    (GET /f/:id)
ThreadListPage(raw) == Max(PageOrOne(raw), 1)
\* const page = Number(req.query.page) || 1                 (GET /thread/:id)
ReplyListPage(raw) == PageOrOne(raw)

\* const offset = (page - 1) * limit
Offset(page) == (page - 1) * ListLimit

\* const totalPages = Math.max(Math.ceil(totalThreads / limit), 1)
ThreadListTotalPages(count) == Max(CeilDiv(count, ListLimit), 1)
\* const totalPages = Math.ceil(totalReplies / limit)
ReplyListTotalPages(count) == CeilDiv(count, ListLimit)

(* -------------------------------- GET /f/:id --------------------------- *)
\* the thread listing without its redirect
PageBeyondNever(page, totalPages) == FALSE

\* if (page > totalPages) return res.redirect(...)
PageBeyond(page, totalPages) == page > totalPages

ThreadListBegin(p, fid, rawPage) ==
    /\ resp = NoResp
    /\ pc[p] = "idle"
    /\ UNCHANGED <<forums, threads, replies, threadSeq, replySeq, now>>
    /\ IF fid.nan
       THEN /\ resp' = Sent([op |-> "threadList", forumId |-> Null,
                         rawPage |-> rawPage, page |-> Null, offset |-> Null,
                         total |-> Null, totalPages |-> Null, fetched |-> FALSE],
                   [kind |-> "send", status |-> 400, body |-> "Invalid forum id"])
            /\ UNCHANGED <<pc, loc>>
       ELSE /\ loc' = [loc EXCEPT ![p] =
                   [op |-> "threadList", forumId |-> fid.n, rawPage |-> rawPage,
                    page |-> ThreadListPage(rawPage),
                    offset |-> Offset(ThreadListPage(rawPage)),
                    total |-> Null, totalPages |-> Null, fetched |-> FALSE]]
            /\ resp' = NoResp
            /\ pc' = [pc EXCEPT ![p] = "listForum"]

\* forumData = forum.findUnique; 404 when there is none
ThreadListForum(p) ==
    /\ resp = NoResp
    /\ pc[p] = "listForum"
    /\ UNCHANGED <<forums, threads, replies, threadSeq, replySeq, now>>
    /\ IF loc[p].forumId \in forums
       THEN /\ pc' = [pc EXCEPT ![p] = "listCount"]
            /\ UNCHANGED <<loc, resp>>
       ELSE /\ pc' = [pc EXCEPT ![p] = "idle"]
            /\ loc' = [loc EXCEPT ![p] = Idle]
            /\ resp' = Sent(loc[p],
                   [kind |-> "send", status |-> 404, body |-> "Forum not found"])

\* totalThreads = thread.count; totalPages; the redirect when page > totalPages
ThreadListCount(p) ==
    /\ resp = NoResp
    /\ pc[p] = "listCount"
    /\ UNCHANGED <<forums, threads, replies, threadSeq, replySeq, now>>
    /\ LET total == Cardinality({t \in threads : t.forumId = loc[p].forumId})
           frame == [loc[p] EXCEPT !.total = total,
                                   !.totalPages = ThreadListTotalPages(total)]
       IN IF PageBeyond(frame.page, frame.totalPages)
          THEN /\ resp' = Sent(frame,
                      [kind |-> "redirect", to |-> "forum",
                       id |-> frame.forumId, page |-> frame.totalPages])
               /\ loc' = [loc EXCEPT ![p] = Idle]
               /\ pc' = [pc EXCEPT ![p] = "idle"]
          ELSE /\ resp' = NoResp
               /\ loc' = [loc EXCEPT ![p] = frame]
               /\ pc' = [pc EXCEPT ![p] = "listRows"]

\* a listed thread with the reply count of include: { _count }
ThreadListRow(t, rs) ==
    [id |-> t.id, forum_id |-> t.forumId, created_at |-> t.createdAt,
     reply_count |-> Cardinality(RepliesOf(rs, t.id))]

\* threadsRaw = thread.findMany(createdAt desc, take limit, skip offset); render
ThreadListRows(p) ==
    /\ resp = NoResp
    /\ pc[p] = "listRows"
    /\ UNCHANGED <<forums, threads, replies, threadSeq, replySeq, now>>
    /\ \E order \in OrdersDesc({t \in threads : t.forumId = loc[p].forumId},
                               CreatedAt(threads)) :
         LET rows == Take(Skip(order, loc[p].offset), ListLimit)
         IN resp' = Sent([loc[p] EXCEPT !.fetched = TRUE],
                [kind |-> "render", view |-> "forum",
                 threads |-> [i \in DOMAIN rows |-> ThreadListRow(rows[i], replies)],
                 currentPage |-> loc[p].page, totalPages |-> loc[p].totalPages])
    /\ loc' = [loc EXCEPT ![p] = Idle]
    /\ pc' = [pc EXCEPT ![p] = "idle"]

(* ------------------------------ GET /thread/:id ------------------------ *)
ReplyListBegin(p, tid, rawPage) ==
    /\ resp = NoResp
    /\ pc[p] = "idle"
    /\ UNCHANGED <<forums, threads, replies, threadSeq, replySeq, now>>
    /\ IF tid.nan
       THEN \* thread.findUnique rejects a NaN id
            /\ resp' = Sent([op |-> "replyList", threadId |-> Null,
                         rawPage |-> rawPage, page |-> ReplyListPage(rawPage),
                         offset |-> Offset(ReplyListPage(rawPage)),
                         total |-> Null, totalPages |-> Null], ServerError)
            /\ UNCHANGED <<pc, loc>>
       ELSE /\ loc' = [loc EXCEPT ![p] =
                   [op |-> "replyList", threadId |-> tid.n, rawPage |-> rawPage,
                    page |-> ReplyListPage(rawPage),
                    offset |-> Offset(ReplyListPage(rawPage)),
                    total |-> Null, totalPages |-> Null]]
            /\ resp' = NoResp
            /\ pc' = [pc EXCEPT ![p] = "viewThread"]

\* thread = thread.findUnique; 404 when there is none
ReplyListThread(p) ==
    /\ resp = NoResp
    /\ pc[p] = "viewThread"
    /\ UNCHANGED <<forums, threads, replies, threadSeq, replySeq, now>>
    /\ IF loc[p].threadId \in ThreadIds(threads)
       THEN /\ pc' = [pc EXCEPT ![p] = "viewCount"]
            /\ UNCHANGED <<loc, resp>>
       ELSE /\ pc' = [pc EXCEPT ![p] = "idle"]
            /\ loc' = [loc EXCEPT ![p] = Idle]
            /\ resp' = Sent(loc[p],
                   [kind |-> "send", status |-> 404, body |-> "Thread not found"])

\* totalReplies = reply.count; totalPages
ReplyListCount(p) ==
    /\ resp = NoResp
    /\ pc[p] = "viewCount"
    /\ UNCHANGED <<forums, threads, replies, threadSeq, replySeq, now, resp>>
    /\ LET total == Cardinality(RepliesOf(replies, loc[p].threadId))
       IN loc' = [loc EXCEPT ![p].total = total,
                             ![p].totalPages = ReplyListTotalPages(total)]
    /\ pc' = [pc EXCEPT ![p] = "viewRows"]

\* repliesRaw = reply.findMany(createdAt asc, take limit, skip offset); render.
\* The store rejects a negative skip, which ends in the generic server error.
ReplyListRows(p) ==
    /\ resp = NoResp
    /\ pc[p] = "viewRows"
    /\ UNCHANGED <<forums, threads, replies, threadSeq, replySeq, now>>
    /\ pc' = [pc EXCEPT ![p] = "idle"]
    /\ loc' = [loc EXCEPT ![p] = Idle]
    /\ IF loc[p].offset < 0
       THEN resp' = Sent(loc[p], ServerError)
       ELSE \E order \in OrdersAsc(RepliesOf(replies, loc[p].threadId),
                                   CreatedAt(replies)) :
              resp' = Sent(loc[p],
                  [kind |-> "render", view |-> "thread",
                   replies |-> Take(Skip(order, loc[p].offset), ListLimit),
                   currentPage |-> loc[p].page,
                   totalPages |-> loc[p].totalPages])

(* --------------------------- specifications ---------------------------- *)
\* the requests served in one step, with bodies drawn from TB and RB
Requests(TB, RB) ==
    \/ \E fid \in ForumParams, body \in TB, at \in Stamps(now) :
          CreateThread(fid, body, at)
    \/ \E tid \in IdParams, body \in RB, at \in Stamps(now) :
          CreateReply(tid, body, at)
    \/ \E tid \in IdParams, rid \in IdParams : DeleteReply(tid, rid)

DeleteThread(p) ==
    \/ \E tid \in IdParams : DeleteThreadFind(p, tid)
    \/ TxnDeleteReplies(p)
    \/ TxnDeleteThread(p)
    \/ TxnFail(p)

Search(p) ==
    \/ \E raw \in QueryParams : SearchBegin(p, raw)
    \/ SearchThreads(p)
    \/ SearchReplies(p)
    \/ SearchMissing(p)

\* the requests that change the store and the feed, with up to two thread
\* deletions in flight
Next ==
    \/ Deliver
    \/ Requests(PlainThreadBodies, PlainReplyBodies)
    \/ NewPosts
    \/ \E p \in Procs : DeleteThread(p)

Spec == Init /\ [][Next]_vars

\* a search in flight in slot 1 among the requests that change the store,
\* with a thread deletion in flight in slot 2
NextSearch ==
    \/ Deliver
    \/ Requests(ThreadBodies, ReplyBodies)
    \/ \E p \in ReadProcs : Search(p)
    \/ \E p \in Procs \ ReadProcs : DeleteThread(p)

SpecSearch == Init /\ [][NextSearch]_vars

\* the two listing flows, served one request at a time on a store that holds
\* n threads in forum 1 and m replies in thread 1, every row with a
\* createdAt of its own
ListThreadRow(i) ==
    [id |-> i, forumId |-> 1, title |-> <<"h", "i">>, author |-> <<>>,
     content |-> ThreadContent(<<"y">>), createdAt |-> i]
ListReplyRow(i, at) ==
    [id |-> i, threadId |-> 1, author |-> <<>>,
     content |-> ReplyContent(<<"y">>), createdAt |-> at + i]

InitList ==
    \E n \in 0..MaxRows, m \in 0..MaxRows :
        /\ (n = 0 => m = 0)
        /\ forums = SeedForums
        /\ threads = {ListThreadRow(i) : i \in 1..n}
        /\ replies = {ListReplyRow(i, n) : i \in 1..m}
        /\ threadSeq = n + 1
        /\ replySeq = m + 1
        /\ now = n + m
        /\ pc = [p \in Procs |-> "idle"]
        /\ loc = [p \in Procs |-> Idle]
        /\ resp = NoResp

ThreadList(p) ==
    \/ \E fid \in ForumParams, raw \in PageParams : ThreadListBegin(p, fid, raw)
    \/ ThreadListForum(p)
    \/ ThreadListCount(p)
    \/ ThreadListRows(p)

ReplyList(p) ==
    \/ \E tid \in IdParams, raw \in PageParams : ReplyListBegin(p, tid, raw)
    \/ ReplyListThread(p)
    \/ ReplyListCount(p)
    \/ ReplyListRows(p)

NextList ==
    \/ Deliver
    \/ \E p \in ReadProcs : ThreadList(p) \/ ReplyList(p)

SpecList == InitList /\ [][NextList]_vars

(* ------------------------------- claims -------------------------------- *)
Sends(op) == resp.frame.op = op
Results == resp.out.results
ResultIds == {Results[i].thread.id : i \in DOMAIN Results}
NonIncreasing(rows) ==
    \A j, k \in DOMAIN rows : j < k => rows[j].createdAt >= rows[k].createdAt
NonDecreasing(rows) ==
    \A j, k \in DOMAIN rows : j < k => rows[j].createdAt <= rows[k].createdAt

\* C1: the step that ends a thread deletion either answers with the redirect
\* and leaves neither the thread nor any reply of it, or answers with the
\* server error and leaves threads and replies as they were; and no reachable
\* state holds a reply whose thread is gone
C1_DeleteAllOrNothing ==
    /\ [](\A r \in replies : r.threadId \in ThreadIds(threads))
    /\ [][\A p \in Procs :
            (TxnDeleteThread(p) \/ TxnFail(p)) =>
                \/ /\ resp'.out.kind = "redirect"
                   /\ loc[p].threadId \notin ThreadIds(threads')
                   /\ \A r \in replies' : r.threadId # loc[p].threadId
                \/ /\ resp'.out = ServerError
                   /\ threads' = threads
                   /\ replies' = replies]_vars

\* a thread deletion has failed after its transaction had deleted replies, and
\* the thread and those replies are in the store
C1_Witness ==
    /\ Sends("deleteThread")
    /\ resp.out = ServerError
    /\ resp.frame.pending # {}
    /\ resp.frame.threadId \in ThreadIds(threads)
    /\ resp.frame.pending \subseteq replies

\* C2: every stored reply names a stored thread and every stored thread a
\* stored forum; a create-thread under a forum id that is not stored and a
\* create-reply under a thread id that is not stored answer with the server
\* error and leave forums, threads and replies as they were
C2_ReferentialIntegrity ==
    /\ [](/\ \A r \in replies : \E t \in threads : t.id = r.threadId
          /\ \A t \in threads : t.forumId \in forums)
    /\ [][/\ \A fid \in ForumParams, body \in ThreadBodies, at \in Stamps(now) :
               (CreateThread(fid, body, at) /\ (fid.nan \/ fid.n \notin forums))
                   => (resp'.out = ServerError /\ store' = store)
          /\ \A tid \in IdParams, body \in ReplyBodies, at \in Stamps(now) :
               (CreateReply(tid, body, at)
                    /\ (tid.nan \/ \A t \in threads : t.id # tid.n))
                   => (resp'.out = ServerError /\ store' = store)]_vars

\* a create-reply has been refused by the store (its id was drawn from the
\* sequence) while another thread exists, and no reply row was stored
C2_Witness ==
    /\ Sends("createReply")
    /\ resp.out = ServerError
    /\ replySeq > 1
    /\ replies = {}
    /\ threads # {}

\* C3: the thread ids of the results of a search with a non-blank query are
\* the ids of the direct thread matches together with the keys of the
\* reply-group mapping, each in exactly one result record
C3_ResultIdsAreUnion ==
    (Sends("search") /\ resp.frame.q # <<>>) =>
        /\ ResultIds = SeqIds(resp.frame.matchingThreads)
                         \cup DOMAIN RepliesByThread(resp.frame.matchingReplies)
        /\ \A i, j \in DOMAIN Results :
              Results[i].thread.id = Results[j].thread.id => i = j

\* C4: in the results of a search with a non-blank query, a record that is not
\* a direct match has reply matches, and every reply match of a record is a
\* reply of the record's thread
C4_OrphanHasReplies ==
    (Sends("search") /\ resp.frame.q # <<>>) =>
        \A i \in DOMAIN Results :
            /\ ~Results[i].matchesInThread => Results[i].replyMatches # <<>>
            /\ \A j \in DOMAIN Results[i].replyMatches :
                  Results[i].replyMatches[j].threadId = Results[i].thread.id

\* a search has answered with a direct match that has no reply match and a
\* record that matched through a reply only
C4_Witness ==
    /\ Sends("search")
    /\ \E i, j \in DOMAIN Results :
          /\ Results[i].matchesInThread
          /\ Results[i].replyMatches = <<>>
          /\ ~Results[j].matchesInThread
          /\ Results[j].replyMatches # <<>>

\* C8 as stated: the reply matches of every result record are ordered
\* oldest-first (createdAt ascending)
C8_OldestFirst ==
    Sends("search") =>
        \A i \in DOMAIN Results : NonDecreasing(Results[i].replyMatches)

\* C8 amended: the reply matches of every result record are ordered
\* newest-first (createdAt descending), and they are the matching replies of
\* the record's thread that the reply query returned
C8_NewestFirst ==
    Sends("search") =>
        \A i \in DOMAIN Results :
            /\ NonIncreasing(Results[i].replyMatches)
            /\ Len(Results[i].replyMatches) =
                   Cardinality({k \in DOMAIN resp.frame.matchingReplies :
                       resp.frame.matchingReplies[k].threadId = Results[i].thread.id})

\* a search has answered with a record that matched through replies only and
\* holds two reply matches, the later-created first
C8_Witness ==
    /\ Sends("search")
    /\ \E i \in DOMAIN Results :
          /\ ~Results[i].matchesInThread
          /\ Len(Results[i].replyMatches) = 2
          /\ Results[i].replyMatches[1].createdAt
                > Results[i].replyMatches[2].createdAt

\* C5 as stated: the totalPages handed to the view by either listing flow is
\* the least n >= 1 with n * 10 >= totalCount
C5_TotalPages ==
    ((Sends("threadList") \/ Sends("replyList")) /\ resp.out.kind = "render") =>
        /\ resp.out.totalPages >= 1
        /\ resp.out.totalPages * ListLimit >= resp.frame.total
        /\ resp.out.totalPages > 1 =>
               (resp.out.totalPages - 1) * ListLimit < resp.frame.total

\* C6 as stated: in either listing flow the page is max(requested page, 1), a
\* page that is not a number counting as 1, and the offset is
\* (page - 1) * 10, never negative and a multiple of 10
C6_PageAndOffset ==
    \A p \in Procs :
        loc[p].op \in {"threadList", "replyList"} =>
            LET page == IF loc[p].rawPage.nan THEN 1 ELSE Max(loc[p].rawPage.n, 1)
            IN /\ loc[p].page = page
               /\ loc[p].offset = (page - 1) * ListLimit
               /\ loc[p].offset >= 0
               /\ loc[p].offset % ListLimit = 0

C9_DeleteReplyFrame ==
    [][\A tid \in IdParams, rid \in IdParams :
          (DeleteReply(tid, rid) /\ ~tid.nan /\ ~rid.nan) =>
              /\ replies' \subseteq replies
              /\ \A r \in replies \ replies' : r.id = rid.n /\ r.threadId = tid.n
              /\ (~\E r \in replies : r.id = rid.n /\ r.threadId = tid.n)
                     => replies' = replies
              /\ threads' = threads
              /\ forums' = forums
              /\ resp'.out = [kind |-> "redirect", to |-> "thread", id |-> tid.n]]_vars

\* a reply deletion has answered with the redirect to a thread page while every
\* reply ever stored is still stored, one of them in another thread
C9_Witness ==
    /\ Sends("deleteReply")
    /\ resp.out.kind = "redirect"
    /\ Cardinality(replies) = replySeq - 1
    /\ \E r \in replies : r.threadId # resp.out.id

\* C10: a thread listing of an existing forum answers a page beyond totalPages
\* with the redirect to page = totalPages and fetches no rows, and otherwise
\* renders with 1 <= currentPage <= totalPages; a reply listing of an existing
\* thread renders the page asked for, also when it is beyond totalPages
C10_ThreadListClamp ==
    /\ (Sends("threadList") /\ resp.frame.totalPages # Null) =>
          IF resp.frame.page > resp.frame.totalPages
          THEN /\ resp.out.kind = "redirect"
               /\ resp.out.page = resp.frame.totalPages
               /\ ~resp.frame.fetched
          ELSE /\ resp.out.kind = "render"
               /\ resp.frame.fetched
               /\ resp.out.currentPage = resp.frame.page
               /\ 1 <= resp.out.currentPage
               /\ resp.out.currentPage <= resp.out.totalPages
    /\ (Sends("replyList") /\ resp.frame.totalPages # Null
           /\ resp.frame.page > resp.frame.totalPages) =>
          /\ resp.out.kind = "render"
          /\ resp.out.currentPage = resp.frame.page
          /\ resp.frame.page =
                 IF resp.frame.rawPage.nan \/ resp.frame.rawPage.n = 0
                 THEN 1 ELSE resp.frame.rawPage.n
          /\ resp.out.totalPages = resp.frame.totalPages

\* a thread listing has answered a page beyond the last with the redirect to
\* the last page, which is not the first
C10_Witness ==
    /\ Sends("threadList")
    /\ resp.out.kind = "redirect"
    /\ resp.out.page >= 2
    /\ resp.frame.page > resp.out.page

====
